---------------------------- MODULE Spec2Model ----------------------------
(***************************************************************************)
(* A model of code2prompt's library entry point, generate_prompt           *)
(* (src/lib.rs), and of the filtering / tree-construction engine it calls. *)
(*                                                                         *)
(* Strings are sequences of one-character strings.  Option<String> is a    *)
(* sequence of at most one string: None is << >>, Some(s) is << s >>.      *)
(*                                                                         *)
(* lib.rs is modelled from its source.  The modules it imports (filter,    *)
(* path, git, template, token) are not part of the sources at hand: the    *)
(* walker and its policies are modelled from sections 4.1-4.5 of the       *)
(* design text, and the git / template / sink calls are nondeterministic   *)
(* in their outcome (Ok or Err).                                           *)
(***************************************************************************)
EXTENDS Integers, Sequences, FiniteSets, TLC

VARIABLES
    config,       \* the Code2PromptConfig handed to generate_prompt
    rootKind,     \* what config.path names on disk: "dir", "file", "missing"
    ignoreFiles,  \* the ignore files on disk: directory -> its rules
    pc,           \* generate_prompt's position
    result,       \* "running", "ok" or "err": what generate_prompt returned
    error,        \* which step's Err was returned ("none" if none)
    returned,     \* "none", "rendered" or "json": the Ok value returned
    calls,        \* the calls into the imported modules so far, in order
    data,         \* the template data (lines 91-98)
    decisions,    \* the Decision of every entry the walk evaluated
    gitOutcome,   \* per git field: "pending", "skipped", "ok", "failed"
    sinkOutcome,  \* per sink: "none", "ok", "failed"
    input,        \* parse_patterns' argument (pure-function specification)
    parsed,       \* its result, << >> wrapped: << >> before the call
    parseDone     \* whether parse_patterns was applied to input

vars == << config, rootKind, ignoreFiles, pc, result, error, returned, calls,
           data, decisions, gitOutcome, sinkOutcome, input, parsed, parseDone >>

-----------------------------------------------------------------------------
(* Strings *)

None == << >>

Some(s) == << s >>

IsWhitespace(c) == c = " "

RECURSIVE TrimStart(_)
TrimStart(s) ==
    IF s # << >> /\ IsWhitespace(Head(s)) THEN TrimStart(Tail(s)) ELSE s

RECURSIVE TrimEnd(_)
TrimEnd(s) ==
    IF s # << >> /\ IsWhitespace(s[Len(s)])
    THEN TrimEnd(SubSeq(s, 1, Len(s) - 1))
    ELSE s

\* str::trim
Trim(s) == TrimEnd(TrimStart(s))

\* str::split(sep): the pieces between the separators, empty pieces included
RECURSIVE Split(_, _)
Split(s, sep) ==
    IF \A i \in 1..Len(s) : s[i] # sep
    THEN << s >>
    ELSE LET i == CHOOSE k \in 1..Len(s) :
                      s[k] = sep /\ \A j \in 1..(k - 1) : s[j] # sep
         IN  << SubSeq(s, 1, i - 1) >> \o Split(SubSeq(s, i + 1, Len(s)), sep)

MapTrim(segs) == [i \in 1..Len(segs) |-> Trim(segs[i])]

\* lib.rs: parse_patterns
parse_patterns(patterns) ==
    IF patterns # None /\ patterns[1] # << >>
    THEN MapTrim(Split(patterns[1], ","))
    ELSE << >>

-----------------------------------------------------------------------------
(* The directory on disk *)

\* The entries under the root, by path (a sequence of names), each with its
\* kind: a text file, a directory, a file that does not decode as text, or an
\* entry that cannot be read at all.
FS ==
    (<< "a" >> :> "file") @@
    (<< "b" >> :> "dir") @@
    (<< "b", "c" >> :> "file") @@
    (<< "b", "g" >> :> "dir") @@
    (<< "b", "g", "h" >> :> "file") @@
    (<< "d" >> :> "binary") @@
    (<< "u" >> :> "unreadable")

Root == << >>

Dirs == {Root} \cup {p \in DOMAIN FS : FS[p] = "dir"}

\* The names of the entries, in lexicographic order
NameOrder == << "a", "b", "c", "d", "g", "h", "u" >>

\* A directory's entries, sorted lexicographically by name
SortedChildren(dir) ==
    SelectSeq(NameOrder, LAMBDA n : Append(dir, n) \in DOMAIN FS)

\* The path relative to the root, forward-slash separated
RECURSIVE PathStr(_)
PathStr(path) ==
    IF path = << >> THEN << >>
    ELSE IF Len(path) = 1 THEN << path[1] >>
    ELSE << path[1], "/" >> \o PathStr(Tail(path))

-----------------------------------------------------------------------------
(* PatternSet (4.1) *)

\* Glob semantics: * matches within a path segment, ** across segments,
\* every other character matches itself (case-sensitive).
RECURSIVE GlobMatch(_, _)
GlobMatch(p, s) ==
    IF p = << >> THEN s = << >>
    ELSE IF Len(p) >= 2 /\ p[1] = "*" /\ p[2] = "*"
    THEN \E k \in 0..Len(s) :
            GlobMatch(SubSeq(p, 3, Len(p)), SubSeq(s, k + 1, Len(s)))
    ELSE IF p[1] = "*"
    THEN \E k \in 0..Len(s) :
            /\ \A j \in 1..k : s[j] # "/"
            /\ GlobMatch(Tail(p), SubSeq(s, k + 1, Len(s)))
    ELSE s # << >> /\ s[1] = p[1] /\ GlobMatch(Tail(p), Tail(s))

AnyMatches(patterns, path) ==
    \E i \in 1..Len(patterns) : GlobMatch(patterns[i], PathStr(path))

matches_include(pattern_set, path) ==
    pattern_set.includes = << >> \/ AnyMatches(pattern_set.includes, path)

matches_exclude(pattern_set, path) ==
    AnyMatches(pattern_set.excludes, path)

-----------------------------------------------------------------------------
(* IgnoreResolver (4.2) *)

\* One rule of an ignore file: a name pattern, negated (!) or not, restricted
\* to directories (trailing /) or not.
Rule(pat, negated, dirOnly) ==
    [pat |-> pat, negated |-> negated, dirOnly |-> dirOnly]

\* The rules in file order; a later matching rule overrides an earlier verdict.
RECURSIVE ApplyRules(_, _, _, _)
ApplyRules(rules, name, is_dir, verdict) ==
    IF rules = << >> THEN verdict
    ELSE LET r == Head(rules)
             m == GlobMatch(r.pat, name) /\ (r.dirOnly => is_dir)
         IN  ApplyRules(Tail(rules), name, is_dir,
                        IF m THEN ~r.negated ELSE verdict)

\* The rule sets from the root's to the immediate parent's, deeper ones later
RECURSIVE FlattenStack(_)
FlattenStack(stack) ==
    IF stack = << >> THEN << >> ELSE Head(stack) \o FlattenStack(Tail(stack))

is_ignored(path, is_dir, rule_stack) ==
    ApplyRules(FlattenStack(rule_stack), << path[Len(path)] >>, is_dir, FALSE)

\* The rule stack a directory hands to its entries: one rule set per
\* directory from the root down to it.
RuleStack(dir) == [k \in 1..(Len(dir) + 1) |-> ignoreFiles[SubSeq(dir, 1, k - 1)]]

-----------------------------------------------------------------------------
(* InclusionPolicy (4.3) *)

Decision(show, content) == [show_in_tree |-> show, include_content |-> content]

Selected(inc, exc, include_priority) ==
    IF inc /\ exc THEN include_priority ELSE inc /\ ~exc

decide(path, is_dir, pattern_set, ignored, include_priority, exclude_from_tree) ==
    IF ignored THEN Decision(FALSE, FALSE)
    ELSE LET inc == matches_include(pattern_set, path)
             exc == matches_exclude(pattern_set, path)
             selected == Selected(inc, exc, include_priority)
         IN  Decision(selected \/ ~exclude_from_tree, selected /\ ~is_dir)

-----------------------------------------------------------------------------
(* FileRecord builder (4.5) and TreeWalker (4.4) *)

\* The records a file contributes: one, or none when it does not decode as
\* text.  A record is known here by its path alone.
build(path) ==
    IF FS[path] = "file" THEN << [path |-> path] >> ELSE << >>

TreeLine(path) == [path |-> path, depth |-> Len(path)]

EmptyWalk == [tree |-> << >>, files |-> << >>, decisions |-> << >>]

\* One entry of the walk: its ignore verdict, its Decision, its tree line and
\* its record.  An unreadable entry is skipped.
Visit(e, stack, a, acc) ==
    LET is_dir == FS[e] = "dir"
        d == decide(e, is_dir, a.pattern_set, is_ignored(e, is_dir, stack),
                    a.include_priority, a.exclude_from_tree)
    IN  IF FS[e] = "unreadable" THEN acc
        ELSE [tree |-> IF d.show_in_tree
                       THEN Append(acc.tree, TreeLine(e)) ELSE acc.tree,
              files |-> IF ~is_dir /\ d.include_content
                        THEN acc.files \o build(e) ELSE acc.files,
              decisions |-> acc.decisions @@ (e :> d)]

\* The walk descending into every directory, ignored or not
DescendsIntoIgnored(e, stack) == FS[e] = "dir"

\* Whether the walk descends into an entry: a directory that is not ignored,
\* whatever its own Decision.
Descends(e, stack) == FS[e] = "dir" /\ ~is_ignored(e, TRUE, stack)

\* Depth-first, pre-order, over a directory's sorted entries
RECURSIVE WalkEntries(_, _, _, _, _)
WalkEntries(dir, names, stack, a, acc) ==
    IF names = << >> THEN acc
    ELSE LET e == Append(dir, Head(names))
             acc1 == Visit(e, stack, a, acc)
             acc2 == IF Descends(e, stack)
                     THEN WalkEntries(e, SortedChildren(e),
                                      Append(stack, ignoreFiles[e]), a, acc1)
                     ELSE acc1
         IN  WalkEntries(dir, Tail(names), stack, a, acc2)

walk(a) == WalkEntries(Root, SortedChildren(Root), << ignoreFiles[Root] >>, a, EmptyWalk)

\* path.rs: traverse_directory, which fails when the root is no directory
traverse_directory(a) ==
    IF rootKind = "dir"
    THEN [ok |-> TRUE] @@ walk(a)
    ELSE [ok |-> FALSE] @@ EmptyWalk

-----------------------------------------------------------------------------
(* The inputs of a run *)

\* Every string over an alphabet, up to a length
Strings(alphabet, n) == UNION { [1..k -> alphabet] : k \in 0..n }

Options(strings) == { None } \cup { Some(s) : s \in strings }

MaxPatternLen == 3

PatternAlphabet == { "b", "/", "*", "," }

ExcludeStrings ==
    { << "*", "*" >>,
      << "b", ",", " ", "b", "/", "c" >>,
      << "b", "/", "g", "/", "*" >> }

BranchStrings ==
    { << >>,
      << "m" >>,
      << "m", ",", "d" >>,
      << " ", "m", " ", ",", "d" >>,
      << "m", ",", ",", "d" >> }

\* The runs whose patterns and flags vary; nothing else is asked for
WalkConfigs ==
    [ include : Options(Strings(PatternAlphabet, MaxPatternLen)),
      exclude : Options(ExcludeStrings),
      include_priority : BOOLEAN,
      exclude_from_tree : BOOLEAN,
      tokens : { FALSE },
      output : { None },
      diff : { FALSE },
      git_diff_branch : { None },
      git_log_branch : { None },
      no_clipboard : { FALSE },
      template : { None },
      json : { FALSE } ]

\* The runs whose template, git, token, JSON and sink options vary
Configs ==
    [ include : Options({ << "b", "/", "*" >> }),
      exclude : { None },
      include_priority : { FALSE },
      exclude_from_tree : { FALSE },
      tokens : BOOLEAN,
      output : Options({ << "o" >> }),
      diff : BOOLEAN,
      git_diff_branch : Options(BranchStrings),
      git_log_branch : Options(BranchStrings),
      no_clipboard : BOOLEAN,
      template : Options({ << "t" >> }),
      json : BOOLEAN ]

NoIgnoreFiles == [d \in Dirs |-> << >>]

\* The root's ignore file holds "g/"
IgnoreDirOnly ==
    [NoIgnoreFiles EXCEPT ![Root] = << Rule(<< "g" >>, FALSE, TRUE) >>]

\* The root's ignore file holds "g" and "h", b's holds "!g"
IgnoreNested ==
    [NoIgnoreFiles EXCEPT
        ![Root] = << Rule(<< "g" >>, FALSE, FALSE), Rule(<< "h" >>, FALSE, FALSE) >>,
        ![<< "b" >>] = << Rule(<< "g" >>, TRUE, FALSE) >>]

IgnorePool == { NoIgnoreFiles, IgnoreDirOnly, IgnoreNested }

RootKinds == { "dir", "file", "missing" }

\* What a git retrieval returns: Ok(text) or Err(message)
GitResults ==
    { [ok |-> TRUE, text |-> << "+" >>], [ok |-> FALSE, text |-> << "e" >>] }

GitFields == { "git_diff", "git_diff_branch", "git_log_branch" }

Sinks == { "clipboard", "file" }

-----------------------------------------------------------------------------
(* generate_prompt *)

Goto(step) ==
    /\ pc' = step
    /\ UNCHANGED << result, error, returned >>

\* return Err(..), or an Err propagated by ?
Fail(e) ==
    /\ pc' = "done"
    /\ result' = "err"
    /\ error' = e
    /\ UNCHANGED returned

\* return Ok(..)
Return(what) ==
    /\ pc' = "done"
    /\ result' = "ok"
    /\ returned' = what
    /\ UNCHANGED error

Call(op, args) == calls' = Append(calls, [op |-> op, args |-> args])

Idle == UNCHANGED << input, parsed, parseDone >>

Inputs == << config, rootKind, ignoreFiles >>

\* The Err's message taken for the text
unwrap_or_message(r) == r.text

\* Result::unwrap_or_default on a Result<String>
unwrap_or_default(r) == IF r.ok THEN r.text ELSE << >>

\* line 42 and get_template: the custom template is read, or the default used
GetTemplate ==
    /\ pc = "get_template"
    /\ IF config.template = None
       THEN Goto("handlebars_setup") /\ UNCHANGED calls
       ELSE \E ok \in BOOLEAN :
               /\ Call("read_to_string", config.template)
               /\ IF ok THEN Goto("handlebars_setup") ELSE Fail("get_template")
    /\ UNCHANGED << Inputs, data, decisions, gitOutcome, sinkOutcome >>
    /\ Idle

\* line 43
HandlebarsSetup ==
    /\ pc = "handlebars_setup"
    /\ Call("handlebars_setup", config.template)
    /\ \E ok \in BOOLEAN :
          IF ok THEN Goto("traverse") ELSE Fail("handlebars_setup")
    /\ UNCHANGED << Inputs, data, decisions, gitOutcome, sinkOutcome >>
    /\ Idle

\* lines 46-47 and 50-58: the arguments of traverse_directory
TraverseArgsSwapped ==
    [ pattern_set |-> [ includes |-> parse_patterns(config.include),
                        excludes |-> parse_patterns(config.exclude) ],
      include_priority |-> config.exclude_from_tree,
      exclude_from_tree |-> config.include_priority ]

TraverseArgs ==
    [ pattern_set |-> [ includes |-> parse_patterns(config.include),
                        excludes |-> parse_patterns(config.exclude) ],
      include_priority |-> config.include_priority,
      exclude_from_tree |-> config.exclude_from_tree ]

\* line 59: the ? after traverse_directory(..)
TraverseErrorSwallowed(r) == FALSE

TraverseErrorPropagates(r) == ~r.ok

\* lines 46-59
Traverse ==
    /\ pc = "traverse"
    /\ Call("traverse_directory", << >>)
    /\ LET r == traverse_directory(TraverseArgs)
       IN  IF TraverseErrorPropagates(r)
           THEN Fail("traverse_directory") /\ UNCHANGED << data, decisions >>
           ELSE /\ Goto("git_diff")
                /\ data' = [data EXCEPT !.source_tree = Some(r.tree),
                                        !.files = Some(r.files)]
                /\ decisions' = r.decisions
    /\ UNCHANGED << Inputs, gitOutcome, sinkOutcome >>
    /\ Idle

\* lines 62-66
GitDiff ==
    /\ pc = "git_diff"
    /\ IF config.diff
       THEN \E r \in GitResults :
               /\ Call("get_git_diff", << >>)
               /\ data' = [data EXCEPT !.git_diff = Some(unwrap_or_default(r))]
               /\ gitOutcome' = [gitOutcome EXCEPT
                                    !.git_diff = IF r.ok THEN "ok" ELSE "failed"]
       ELSE /\ data' = [data EXCEPT !.git_diff = Some(<< >>)]
            /\ gitOutcome' = [gitOutcome EXCEPT !.git_diff = "skipped"]
            /\ UNCHANGED calls
    /\ Goto("git_diff_branch")
    /\ UNCHANGED << Inputs, decisions, sinkOutcome >>
    /\ Idle

\* lines 71 and 82: branches.len() != 2 returns the error
AtLeastTwoBranches(branches) == Len(branches) >= 2

ExactlyTwoBranches(branches) == Len(branches) = 2

\* lines 69-77 and 80-88: one branch-pair retrieval
BranchRetrieval(field, op, next) ==
    IF config[field] # None
    THEN LET branches == parse_patterns(Some(config[field][1]))
         IN  IF ~ExactlyTwoBranches(branches)
             THEN Fail(field) /\ UNCHANGED << calls, data, gitOutcome >>
             ELSE \E r \in GitResults :
                     /\ Call(op, << branches[1], branches[2] >>)
                     /\ data' = [data EXCEPT ![field] = Some(unwrap_or_default(r))]
                     /\ gitOutcome' = [gitOutcome EXCEPT
                                          ![field] = IF r.ok THEN "ok" ELSE "failed"]
                     /\ Goto(next)
    ELSE /\ data' = [data EXCEPT ![field] = Some(<< >>)]
         /\ gitOutcome' = [gitOutcome EXCEPT ![field] = "skipped"]
         /\ Goto(next)
         /\ UNCHANGED calls

\* lines 69-77
GitDiffBranch ==
    /\ pc = "git_diff_branch"
    /\ BranchRetrieval("git_diff_branch", "get_git_diff_between_branches",
                       "git_log_branch")
    /\ UNCHANGED << Inputs, decisions, sinkOutcome >>
    /\ Idle

\* lines 80-88
GitLogBranch ==
    /\ pc = "git_log_branch"
    /\ BranchRetrieval("git_log_branch", "get_git_log", "handle_undefined_variables")
    /\ UNCHANGED << Inputs, decisions, sinkOutcome >>
    /\ Idle

\* lines 91-101: the data is assembled and the undefined variables handled
HandleUndefinedVariables ==
    /\ pc = "handle_undefined_variables"
    /\ Call("handle_undefined_variables", << >>)
    /\ \E ok \in BOOLEAN :
          IF ok THEN Goto("render_template") ELSE Fail("handle_undefined_variables")
    /\ UNCHANGED << Inputs, data, decisions, gitOutcome, sinkOutcome >>
    /\ Idle

\* line 104
RenderTemplate ==
    /\ pc = "render_template"
    /\ Call("render_template", << >>)
    /\ \E ok \in BOOLEAN :
          IF ok THEN Goto("tokens") ELSE Fail("render_template")
    /\ UNCHANGED << Inputs, data, decisions, gitOutcome, sinkOutcome >>
    /\ Idle

\* lines 107-119
Tokens ==
    /\ pc = "tokens"
    /\ IF config.tokens THEN Call("get_tokenizer", << >>) ELSE UNCHANGED calls
    /\ Goto("json")
    /\ UNCHANGED << Inputs, data, decisions, gitOutcome, sinkOutcome >>
    /\ Idle

\* lines 122-131, with the return at line 130 missing
JsonFallsThrough ==
    /\ pc = "json"
    /\ IF config.json THEN Call("get_tokenizer", << >>) ELSE UNCHANGED calls
    /\ Goto("clipboard")
    /\ UNCHANGED << Inputs, data, decisions, gitOutcome, sinkOutcome >>
    /\ Idle

\* lines 122-131: the document is a map of strings, numbers and a list of
\* strings, whose serialization (line 130) does not fail
Json ==
    /\ pc = "json"
    /\ IF config.json
       THEN Call("get_tokenizer", << >>) /\ Return("json")
       ELSE UNCHANGED calls /\ Goto("clipboard")
    /\ UNCHANGED << Inputs, data, decisions, gitOutcome, sinkOutcome >>
    /\ Idle

\* lines 134-152, with the Err of copy_to_clipboard propagated
ClipboardPropagating ==
    /\ pc = "clipboard"
    /\ IF ~config.no_clipboard
       THEN \E ok \in BOOLEAN :
               /\ Call("copy_to_clipboard", << >>)
               /\ sinkOutcome' = [sinkOutcome EXCEPT
                                     !.clipboard = IF ok THEN "ok" ELSE "failed"]
               /\ IF ok THEN Goto("output") ELSE Fail("copy_to_clipboard")
       ELSE Goto("output") /\ UNCHANGED << calls, sinkOutcome >>
    /\ UNCHANGED << Inputs, data, decisions, gitOutcome >>
    /\ Idle

\* lines 134-152: a failed copy is reported and the run goes on
Clipboard ==
    /\ pc = "clipboard"
    /\ IF ~config.no_clipboard
       THEN \E ok \in BOOLEAN :
               /\ Call("copy_to_clipboard", << >>)
               /\ sinkOutcome' = [sinkOutcome EXCEPT
                                     !.clipboard = IF ok THEN "ok" ELSE "failed"]
       ELSE UNCHANGED << calls, sinkOutcome >>
    /\ Goto("output")
    /\ UNCHANGED << Inputs, data, decisions, gitOutcome >>
    /\ Idle

\* lines 155-159
Output ==
    /\ pc = "output"
    /\ IF config.output # None
       THEN \E ok \in BOOLEAN :
               /\ Call("write_to_file", config.output)
               /\ sinkOutcome' = [sinkOutcome EXCEPT
                                     !.file = IF ok THEN "ok" ELSE "failed"]
               /\ IF ok THEN Return("rendered") ELSE Fail("write_to_file")
       ELSE Return("rendered") /\ UNCHANGED << calls, sinkOutcome >>
    /\ UNCHANGED << Inputs, data, decisions, gitOutcome >>
    /\ Idle

Start ==
    /\ pc = "get_template"
    /\ result = "running"
    /\ error = "none"
    /\ returned = "none"
    /\ calls = << >>
    /\ data = [ source_tree |-> None, files |-> None, git_diff |-> None,
                git_diff_branch |-> None, git_log_branch |-> None ]
    /\ decisions = << >>
    /\ gitOutcome = [f \in GitFields |-> "pending"]
    /\ sinkOutcome = [s \in Sinks |-> "none"]
    /\ input = None
    /\ parsed = << >>
    /\ parseDone = FALSE

Init ==
    /\ config \in Configs
    /\ rootKind \in RootKinds
    /\ ignoreFiles \in { NoIgnoreFiles, IgnoreDirOnly }
    /\ Start

InitWalk ==
    /\ config \in WalkConfigs
    /\ rootKind = "dir"
    /\ ignoreFiles \in IgnorePool
    /\ Start

Next ==
    \/ GetTemplate
    \/ HandlebarsSetup
    \/ Traverse
    \/ GitDiff
    \/ GitDiffBranch
    \/ GitLogBranch
    \/ HandleUndefinedVariables
    \/ RenderTemplate
    \/ Tokens
    \/ Json
    \/ Clipboard
    \/ Output

Spec == Init /\ [][Next]_vars

SpecWalk == InitWalk /\ [][Next]_vars

-----------------------------------------------------------------------------
(* parse_patterns on its own *)

MaxInputLen == 4

ParseAlphabet == { "a", ",", " " }

ParsePatterns ==
    /\ ~parseDone
    /\ parsed' = parse_patterns(input)
    /\ parseDone' = TRUE
    /\ UNCHANGED << config, rootKind, ignoreFiles, pc, result, error, returned,
                    calls, data, decisions, gitOutcome, sinkOutcome, input >>

InitParse ==
    /\ input \in Options(Strings(ParseAlphabet, MaxInputLen))
    /\ parsed = << >>
    /\ parseDone = FALSE
    /\ config = [ include |-> None, exclude |-> None, include_priority |-> FALSE,
                  exclude_from_tree |-> FALSE, tokens |-> FALSE, output |-> None,
                  diff |-> FALSE, git_diff_branch |-> None, git_log_branch |-> None,
                  no_clipboard |-> FALSE, template |-> None, json |-> FALSE ]
    /\ rootKind = "dir"
    /\ ignoreFiles = NoIgnoreFiles
    /\ pc = "done"
    /\ result = "running"
    /\ error = "none"
    /\ returned = "none"
    /\ calls = << >>
    /\ data = [ source_tree |-> None, files |-> None, git_diff |-> None,
                git_diff_branch |-> None, git_log_branch |-> None ]
    /\ decisions = << >>
    /\ gitOutcome = [f \in GitFields |-> "pending"]
    /\ sinkOutcome = [s \in Sinks |-> "none"]

SpecParse == InitParse /\ [][ParsePatterns]_vars

-----------------------------------------------------------------------------
(* What the properties speak of *)

Called(op) == \E i \in DOMAIN calls : calls[i].op = op

CallsOf(op) == SelectSeq(calls, LAMBDA c : c.op = op)

\* The walk has returned its tree and records
Walked == data.source_tree # None

InTree(path) ==
    \E i \in DOMAIN data.source_tree[1] : data.source_tree[1][i].path = path

HasRecord(path) ==
    \E i \in DOMAIN data.files[1] : data.files[1][i].path = path

Ancestors(path) == { SubSeq(path, 1, k) : k \in 1..(Len(path) - 1) }

\* Ignored by the ignore-rule stack
Ignored(path) == is_ignored(path, FS[path] = "dir", RuleStack(SubSeq(path, 1, Len(path) - 1)))

\* Ignored, or under an ignored directory
IgnoredOrUnder(path) ==
    Ignored(path) \/ \E d \in Ancestors(path) : Ignored(d)

IncludePatterns == parse_patterns(config.include)

ExcludePatterns == parse_patterns(config.exclude)

\* The path matches an include pattern and an exclude pattern
Conflict(path) ==
    AnyMatches(IncludePatterns, path) /\ AnyMatches(ExcludePatterns, path)

\* The steps after the traversal
LaterOps ==
    { "get_git_diff", "get_git_diff_between_branches", "get_git_log",
      "handle_undefined_variables", "render_template", "get_tokenizer",
      "copy_to_clipboard", "write_to_file" }

GitOps == { "get_git_diff", "get_git_diff_between_branches", "get_git_log" }

\* The errors that invalid caller-supplied configuration causes: a custom
\* template that cannot be read or registered, a malformed branch pair
ConfigErrors ==
    { "get_template", "handlebars_setup", "git_diff_branch", "git_log_branch" }

RenderSucceeded == Called("render_template") /\ error # "render_template"

-----------------------------------------------------------------------------
(* The properties *)

\* C1: tree well-formedness.  Whatever the patterns and flags, a file shown
\* in the tree has every ancestor directory shown in the tree, and a file
\* whose content is included is shown in the tree.
TreeWellFormed ==
    Walked =>
        \A p \in DOMAIN FS :
            /\ (HasRecord(p) => InTree(p))
            /\ (FS[p] # "dir" /\ InTree(p) => \A d \in Ancestors(p) : InTree(d))

\* C2: ignore-file exclusion is a hard veto.  A path that is ignored, or that
\* lies under an ignored directory, is on no line of the tree and has no file
\* record, whatever the patterns and flags.
IgnoreIsHardVeto ==
    Walked =>
        \A p \in DOMAIN FS :
            IgnoredOrUnder(p) => ~InTree(p) /\ ~HasRecord(p)

\* A file under an ignored directory, itself matched by no ignore rule and
\* matched by an include pattern, with inclusion given priority, is left out.
IgnoreIsHardVetoWitness ==
    /\ Walked
    /\ config.include_priority
    /\ ~Ignored(<< "b", "g", "h" >>)
    /\ Ignored(<< "b", "g" >>)
    /\ AnyMatches(IncludePatterns, << "b", "g", "h" >>)
    /\ ~InTree(<< "b", "g", "h" >>)

ParseDropsEmptySegments ==
    parseDone =>
        /\ parsed = ( IF input = None THEN << >>
                      ELSE SelectSeq(MapTrim(Split(input[1], ",")),
                                     LAMBDA seg : seg # << >>) )
        /\ \A i \in DOMAIN parsed : parsed[i] # << >>

\* C5: an invalid root is fatal.  When the traversal fails, generate_prompt
\* has returned that error and no later step was called.
InvalidRootIsFatal ==
    (Called("traverse_directory") /\ ~traverse_directory(TraverseArgs).ok) =>
        /\ pc = "done"
        /\ result = "err"
        /\ error = "traverse_directory"
        /\ \A i \in DOMAIN calls : calls[i].op \notin LaterOps

InvalidRootIsFatalWitness ==
    /\ rootKind = "file"
    /\ Called("traverse_directory")
    /\ config.diff
    /\ config.tokens
    /\ config.output # None
    /\ result = "err"

\* C6: a git retrieval that fails, or is not asked for, leaves its field the
\* empty string, and no failure of a retrieval is an error of generate_prompt.
GitFailureIsEmptyText ==
    /\ error \notin GitOps
    /\ \A f \in GitFields :
          gitOutcome[f] \in { "failed", "skipped" } => data[f] = Some(<< >>)

\* All three retrievals asked for, all three failed, and the run succeeded.
GitFailureIsEmptyTextWitness ==
    /\ \A f \in GitFields : gitOutcome[f] = "failed"
    /\ pc = "done"
    /\ result = "ok"

\* C7: an error of caller-supplied configuration aborts before any traversal
\* begins: no run starts the traversal and then fails on such an error.
ConfigErrorsBeforeTraversal ==
    (result = "err" /\ error \in ConfigErrors) => ~Called("traverse_directory")

\* One branch-pair field of C8, with the retrieval it feeds
BranchPairValidated(field, op) ==
    config[field] # None =>
        LET branches == parse_patterns(config[field])
        IN  IF Len(branches) # 2
            THEN /\ (pc = "done" => result = "err")
                 /\ ~Called(op)
                 /\ ~Called("render_template")
                 /\ ~Called("copy_to_clipboard")
                 /\ ~Called("write_to_file")
            ELSE /\ Len(CallsOf(op)) <= 1
                 /\ (gitOutcome[field] # "pending" =>
                        CallsOf(op) = << [op |-> op,
                                          args |-> << branches[1], branches[2] >>] >>)

\* C8: branch-pair validation.  A git_diff_branch (git_log_branch) that
\* parse_patterns does not split into exactly two segments makes
\* generate_prompt return an error, with its retrieval, the rendering, the
\* clipboard copy and the file write never called; one of exactly two
\* segments has its retrieval called once, with the two segments in order.
BranchPairValidation ==
    /\ BranchPairValidated("git_diff_branch", "get_git_diff_between_branches")
    /\ BranchPairValidated("git_log_branch", "get_git_log")

\* The diff pair is well-formed and its retrieval was called with the trimmed
\* segments; the log pair is malformed and ended the run.
BranchPairValidationWitness ==
    /\ config.git_diff_branch = Some(<< " ", "m", " ", ",", "d" >>)
    /\ CallsOf("get_git_diff_between_branches") =
          << [op |-> "get_git_diff_between_branches",
              args |-> << << "m" >>, << "d" >> >>] >>
    /\ config.git_log_branch = Some(<< "m", ",", ",", "d" >>)
    /\ result = "err"
    /\ error = "git_log_branch"

\* The position of the only call of op, 0 if there is none
CallIndex(op) ==
    IF Called(op) THEN CHOOSE i \in DOMAIN calls : calls[i].op = op ELSE 0

\* C9: JSON mode bypasses the sinks.  With json set, neither sink is ever
\* called, and a run whose rendering succeeded returns the JSON document;
\* without it each sink is called at most once, the clipboard copy before the
\* file write, and only after the rendering succeeded.
JsonBypassesSinks ==
    IF config.json
    THEN /\ ~Called("copy_to_clipboard")
         /\ ~Called("write_to_file")
         /\ (pc = "done" /\ RenderSucceeded => result = "ok" /\ returned = "json")
         /\ (returned = "json" => RenderSucceeded)
    ELSE /\ Len(CallsOf("copy_to_clipboard")) <= 1
         /\ Len(CallsOf("write_to_file")) <= 1
         /\ (Called("copy_to_clipboard") /\ Called("write_to_file") =>
                CallIndex("copy_to_clipboard") < CallIndex("write_to_file"))
         /\ \A sink \in { "copy_to_clipboard", "write_to_file" } :
               Called(sink) =>
                  /\ RenderSucceeded
                  /\ CallIndex("render_template") < CallIndex(sink)
         /\ returned # "json"

\* JSON returned although the clipboard is enabled and an output file is set.
JsonBypassesSinksWitness ==
    /\ config.json
    /\ ~config.no_clipboard
    /\ config.output # None
    /\ pc = "done"
    /\ returned = "json"

\* C10: sink failures are asymmetric.  A failed clipboard copy is no error
\* of generate_prompt and does not keep the file from being written: the
\* run ends with the write called when output is set, and returns the
\* rendered text unless that write fails.  A failed write is an error of
\* generate_prompt, returned after the clipboard copy, if enabled, was made.
SinkFailuresAsymmetric ==
    /\ error # "copy_to_clipboard"
    /\ sinkOutcome.clipboard = "failed" =>
          /\ pc \in { "output", "done" }
          /\ pc = "done" =>
                /\ (config.output # None <=> Called("write_to_file"))
                /\ (sinkOutcome.file # "failed" =>
                       result = "ok" /\ returned = "rendered")
    /\ sinkOutcome.file = "failed" =>
          /\ pc = "done"
          /\ result = "err"
          /\ error = "write_to_file"
          /\ (~config.no_clipboard =>
                 /\ Called("copy_to_clipboard")
                 /\ CallIndex("copy_to_clipboard") < CallIndex("write_to_file"))

\* The copy failed, the file was written all the same, the text returned.
SinkFailuresAsymmetricWitness ==
    /\ sinkOutcome.clipboard = "failed"
    /\ sinkOutcome.file = "ok"
    /\ result = "ok"
    /\ returned = "rendered"

=============================================================================
